---- MODULE Spec2Model ----
(***************************************************************************)
(* Model of kedro-vertexai: the node grouping (kedro_vertexai/grouping.py: *)
(* the Grouping dataclass with its validation, IdentityNodeGrouper and     *)
(* TagNodeGrouper), the resolution of resources and node selectors         *)
(* (kedro_vertexai/config.py: RunConfig) and the generation of the Vertex  *)
(* AI pipeline (kedro_vertexai/generator.py: PipelineGenerator).           *)
(*                                                                         *)
(* Strings are sequences of one-character strings, so that startswith and  *)
(* slicing are computed as Python computes them.  A kedro Node is a node   *)
(* id; its name and tags are given by node_name[n] and node_tags[n].  A    *)
(* Python dict is a function whose DOMAIN is the set of keys; the          *)
(* insertion order of node_dependencies (the only dict order the code      *)
(* depends on) is the order of the node ids.  A Python set that the code   *)
(* iterates (the tags of a resolution) is a sequence without repetition:   *)
(* the order in which the iteration yields its elements.                   *)
(***************************************************************************)
EXTENDS Integers, Sequences, FiniteSets, TLC

VARIABLES
    node_name,          \* Node.name of every node of the pipeline
    node_tags,          \* Node.tags of every node of the pipeline
    node_dependencies,  \* Pipeline.node_dependencies: node -> set of parents
    dependencies_arg,   \* the dependencies= argument of a direct Grouping(...)
    run_config,         \* RunConfig: resources, node_selectors, grouping
    mlflow_enabled,     \* what utils.is_mlflow_enabled() answers
    target,             \* the (node, tags) arguments of a resolution
    call,               \* the operation that has been invoked, "none" before
    result,             \* what a grouper or Grouping(...) returned or raised
    resolved,           \* what resources_for / node_selectors_for returned
    tasks,              \* the operators created inside the dsl.pipeline
    kfp_ops,            \* PipelineGenerator's kfp_ops: name -> operator
    after,              \* the pairs <<op, dependency>> set by op.after(...)
    args,               \* the options and arguments of the running command
    pc,                 \* the position of the running command in its code
    calls,              \* the calls the command has made, in their order
    exit_code,          \* the code the command exited with, once pc = "exited"
    files,              \* the YAML files on disk: path -> parsed document
    schedules,          \* the schedules that exist in Vertex AI
    log                 \* the warnings and errors logged, in their order

vars ==
    <<node_name, node_tags, node_dependencies, dependencies_arg, run_config,
      mlflow_enabled, target, call, result, resolved, tasks, kfp_ops, after,
      args, pc, calls, exit_code, files, schedules, log>>

----------------------------------------------------------------------------
(* Bounds of the model.                                                    *)

\* number of nodes of the pipeline
MaxNodes == 3

\* largest number of tags the nodes of the pipeline carry altogether
MaxTags == 3

Nodes == 1 .. MaxNodes

\* node names: unique within a pipeline, one letter each
NameChars == <<"a", "b", "c", "d", "e">>

\* the names the nodes have where only the grouping is exercised
letter_names == [n \in Nodes |-> <<NameChars[n]>>]

name(n) == node_name[n]

NodeNames == { name(n) : n \in Nodes }

\* TagNodeGrouper.tag_prefix as configured for the model: "g."
tag_prefix == <<"g", ".">>

\* tags a node may carry: "g.b" (its group name equals the name of node 2),
\* "g.x" (a group name that is no node name) and "gx" (not a grouping tag)
TagUniverse == { <<"g", ".", "b">>, <<"g", ".", "x">>, <<"g", "x">> }

\* the taggings of the pipeline's nodes
Taggings ==
    { f \in [Nodes -> SUBSET TagUniverse] :
        Cardinality({ nt \in Nodes \X TagUniverse : nt[2] \in f[nt[1]] })
            <= MaxTags }

----------------------------------------------------------------------------
(* Helpers.                                                                *)

\* str.startswith
startswith(s, p) == Len(s) >= Len(p) /\ SubSeq(s, 1, Len(p)) = p

\* the empty dict
EmptyDict == [k \in {} |-> {}]

\* d[k] = v on a dict: adds the key or replaces its value
DictSet(d, k, v) == [x \in DOMAIN d \cup {k} |-> IF x = k THEN v ELSE d[x]]

\* del d[k]
DictDel(d, k) == [x \in DOMAIN d \ {k} |-> d[x]]

\* the union of the values of a dict of sets
Values(d) == UNION { d[k] : k \in DOMAIN d }

\* the nodes reachable from the nodes S by following parents one or more times
RECURSIVE Ancestors(_, _)
Ancestors(parents, S) ==
    LET next == S \cup UNION { parents[n] : n \in S }
    IN  IF next = S THEN S ELSE Ancestors(parents, next)

\* kedro accepts a pipeline only if its nodes form a directed acyclic graph
IsDAG(parents) ==
    \A n \in DOMAIN parents : n \notin Ancestors(parents, parents[n])

\* the node_dependencies of the pipelines of MaxNodes nodes
DependencyGraphs == { p \in [Nodes -> SUBSET Nodes] : IsDAG(p) }

----------------------------------------------------------------------------
(* toposort.toposort, as Grouping.validate consumes it: TRUE when the      *)
(* generator runs to its end, FALSE when it raises CircularDependencyError.*)

RECURSIVE toposort_loop(_)
toposort_loop(data) ==
    LET ordered == { item \in DOMAIN data : data[item] = {} }
    IN  IF ordered = {}
        THEN data
        ELSE toposort_loop([item \in DOMAIN data \ ordered |->
                                data[item] \ ordered])

toposort_data(data) ==
    LET nodeps == [item \in DOMAIN data |-> data[item] \ {item}]
        extra_items_in_deps == Values(nodeps) \ DOMAIN nodeps
    IN  [item \in DOMAIN nodeps \cup extra_items_in_deps |->
            IF item \in DOMAIN nodeps THEN nodeps[item] ELSE {}]

toposort_succeeds(data) ==
    \/ DOMAIN data = {}
    \/ DOMAIN toposort_loop(toposort_data(data)) = {}

----------------------------------------------------------------------------
(* Grouping: the dataclass; __post_init__ validates.                       *)

Raised(msg) ==
    [kind |-> "GroupingException", msg |-> msg,
     nodes_mapping |-> EmptyDict, dependencies |-> EmptyDict]

\* validate with the CircularDependencyError never raised
validate_unchecked(dependencies) == TRUE

validate(dependencies) == toposort_succeeds(dependencies)

Grouping(nodes_mapping, dependencies) ==
    IF validate(dependencies)
    THEN [kind |-> "Grouping", msg |-> "",
          nodes_mapping |-> nodes_mapping, dependencies |-> dependencies]
    ELSE Raised("cyclic")

----------------------------------------------------------------------------
(* IdentityNodeGrouper.group                                               *)

IdentityNodeGrouper_nodes_mapping(deps) ==
    [k \in { name(n) : n \in DOMAIN deps } |->
        { n \in DOMAIN deps : name(n) = k }]

\* the dependencies with k.name written where dep.name belongs
IdentityNodeGrouper_dependencies_own_name(deps) ==
    [k \in { name(n) : n \in DOMAIN deps } |->
        UNION { { name(n) : dep \in deps[n] } :
                    n \in { m \in DOMAIN deps : name(m) = k } }]

IdentityNodeGrouper_dependencies(deps) ==
    [k \in { name(n) : n \in DOMAIN deps } |->
        UNION { { name(dep) : dep \in deps[n] } :
                    n \in { m \in DOMAIN deps : name(m) = k } }]

IdentityNodeGrouper_group(deps) ==
    Grouping(IdentityNodeGrouper_nodes_mapping(deps),
             IdentityNodeGrouper_dependencies(deps))

----------------------------------------------------------------------------
(* TagNodeGrouper.group                                                    *)

\* group_mapping = {k.name: set() for k in node_dependencies.keys()}
initial_group_mapping_of_empty_sets(deps) ==
    [k \in { name(n) : n \in DOMAIN deps } |-> {}]

\* group_mapping and group_belonging as the first two statements set them
initial_group_mapping(deps) ==
    [k \in { name(n) : n \in DOMAIN deps } |->
        { n \in DOMAIN deps : name(n) = k }]

initial_group_belonging(deps) ==
    [k \in { name(n) : n \in DOMAIN deps } |-> k]

\* the insertion order of node_dependencies, which node_names copies
node_order(deps) == [i \in 1 .. Cardinality(DOMAIN deps) |-> i]

\* NodeGrouper._get_tagging
get_tagging(deps) ==
    [k \in { name(n) : n \in DOMAIN deps } |->
        node_tags[CHOOSE n \in DOMAIN deps : name(n) = k]]

\* the tags of a node that start with the prefix
grouping_tags(tags) == { t \in tags : startswith(t, tag_prefix) }

\* tag[len(self.tag_prefix):]
group_name_of(tag) == SubSeq(tag, Len(tag_prefix) + 1, Len(tag))

\* the body of "for tag in grouping_tags" for the node called nm
merge_into_group(st, nm, tag) ==
    LET group_name == group_name_of(tag)
        created == IF group_name \notin DOMAIN st.group_mapping
                   THEN DictSet(st.group_mapping, group_name, {})
                   ELSE st.group_mapping
        merged == DictSet(created, group_name,
                          created[group_name] \cup created[nm])
    IN  [st EXCEPT !.group_mapping = DictDel(merged, nm),
                   !.group_belonging = DictSet(@, nm, group_name)]

\* the loop body with the test len(grouping_tags) > 2
tag_loop_body_allows_two(st, nm, tagging) ==
    LET gtags == grouping_tags(tagging[nm])
    IN  IF st.raised THEN st
        ELSE IF Cardinality(gtags) > 2 THEN [st EXCEPT !.raised = TRUE]
        ELSE IF gtags = {} THEN st
        ELSE merge_into_group(st, nm, CHOOSE t \in gtags : TRUE)

\* one iteration of "for name in node_names"
tag_loop_body(st, nm, tagging) ==
    LET gtags == grouping_tags(tagging[nm])
    IN  IF st.raised THEN st
        ELSE IF Cardinality(gtags) > 1 THEN [st EXCEPT !.raised = TRUE]
        ELSE IF gtags = {} THEN st
        ELSE merge_into_group(st, nm, CHOOSE t \in gtags : TRUE)

RECURSIVE tag_loop(_, _, _, _)
tag_loop(st, node_names, i, tagging) ==
    IF i > Len(node_names)
    THEN st
    ELSE tag_loop(tag_loop_body(st, node_names[i], tagging),
                  node_names, i + 1, tagging)

\* the state of the locals after the first loop, the nodes taken in order
tag_groups(deps, order) ==
    tag_loop([group_mapping |-> initial_group_mapping(deps),
              group_belonging |-> initial_group_belonging(deps),
              raised |-> FALSE],
             [i \in 1 .. Len(order) |-> name(order[i])], 1,
             get_tagging(deps))

\* the loop body that assigns the group's set instead of adding to it
dependency_loop_body_overwrites(gd, child, parents, group_belonging) ==
    LET group_name == group_belonging[name(child)]
    IN  DictSet(gd, group_name,
                { group_belonging[name(parent)] : parent \in
                    { p \in parents :
                        group_belonging[name(p)] # group_name } })

\* the loop body without the test that the parent's group differs
dependency_loop_body_keeps_self(gd, child, parents, group_belonging) ==
    LET group_name == group_belonging[name(child)]
        created == IF group_name \notin DOMAIN gd
                   THEN DictSet(gd, group_name, {})
                   ELSE gd
    IN  DictSet(created, group_name,
                created[group_name] \cup
                { group_belonging[name(parent)] : parent \in parents })

\* one iteration of "for child, parents in node_dependencies.items()"
dependency_loop_body(gd, child, parents, group_belonging) ==
    LET group_name == group_belonging[name(child)]
        created == IF group_name \notin DOMAIN gd
                   THEN DictSet(gd, group_name, {})
                   ELSE gd
    IN  DictSet(created, group_name,
                created[group_name] \cup
                { group_belonging[name(parent)] : parent \in
                    { p \in parents :
                        group_belonging[name(p)] # group_name } })

RECURSIVE dependency_loop(_, _, _, _, _)
dependency_loop(gd, deps, order, i, group_belonging) ==
    IF i > Len(order)
    THEN gd
    ELSE dependency_loop(
             dependency_loop_body(gd, order[i], deps[order[i]],
                                  group_belonging),
             deps, order, i + 1, group_belonging)

group_dependencies(deps, order, group_belonging) ==
    dependency_loop(EmptyDict, deps, order, 1, group_belonging)

TagNodeGrouper_group_in_order(deps, order) ==
    LET st == tag_groups(deps, order)
    IN  IF st.raised
        THEN Raised("multiple tags")
        ELSE Grouping(st.group_mapping,
                      group_dependencies(deps, order, st.group_belonging))

TagNodeGrouper_group(deps) ==
    TagNodeGrouper_group_in_order(deps, node_order(deps))

----------------------------------------------------------------------------
(* RunConfig: resources and node selectors (kedro_vertexai/config.py).     *)

\* Python's None as the value of an Optional[str] field
None == "None"

\* the fields of ResourcesConfig
ResourcesFields == {"cpu", "gpu", "memory"}

\* the key of the default entry of RunConfig.resources
default_key == <<"__default__">>

\* an Optional[Dict]: None, or a dict
NoneDict == [is_None |-> TRUE, dict |-> EmptyDict]

SomeDict(d) == [is_None |-> FALSE, dict |-> d]

\* the default value of RunConfig.resources
default_resources ==
    SomeDict([k \in {default_key} |->
                [cpu |-> "500m", gpu |-> None, memory |-> "1024Mi"]])

\* the default value of RunConfig.node_selectors
default_node_selectors == SomeDict(EmptyDict)

\* dict.update
DictUpdate(d, u) ==
    [k \in DOMAIN d \cup DOMAIN u |-> IF k \in DOMAIN u THEN u[k] ELSE d[k]]

\* {k: v for k, v in configs.items() if v is not None}
non_null_keeps_null(configs) == configs

non_null(configs) ==
    [k \in { f \in DOMAIN configs : configs[f] # None } |-> configs[k]]

\* names = [*tags, node]
names_node_first(node, tags) == <<node>> \o tags

names(node, tags) == tags \o <<node>>

\* filled_names = [x for x in names if x in params.keys()]
filled_names(node, tags, params) ==
    SelectSeq(names(node, tags), LAMBDA x : x \in DOMAIN params)

\* for name in filled_names: results.update(...)
RECURSIVE config_loop(_, _, _)
config_loop(filled, params, results) ==
    IF filled = <<>>
    THEN results
    ELSE config_loop(Tail(filled), params,
                     DictUpdate(results, non_null(params[Head(filled)])))

\* RunConfig._config_for; default_config is the dict to start from, the
\* empty dict where the code passes none
config_for(node, tags, params, default_config) ==
    config_loop(filled_names(node, tags, params), params, default_config)

\* what a resolution returns or raises
ReturnedDict(d) == [kind |-> "dict", value |-> d]

RaisedKeyError == [kind |-> "KeyError", value |-> EmptyDict]

NoResolution == [kind |-> "none", value |-> EmptyDict]

\* RunConfig.resources_for
resources_for_without_default(node, tags) ==
    IF run_config.resources.is_None
    THEN ReturnedDict(EmptyDict)
    ELSE ReturnedDict(config_for(node, tags, run_config.resources.dict,
                                 EmptyDict))

resources_for(node, tags) ==
    IF run_config.resources.is_None
    THEN ReturnedDict(EmptyDict)
    ELSE IF default_key \notin DOMAIN run_config.resources.dict
    THEN RaisedKeyError
    ELSE ReturnedDict(
             config_for(node, tags, run_config.resources.dict,
                        run_config.resources.dict[default_key]))

\* RunConfig.node_selectors_for
node_selectors_for(node, tags) ==
    IF run_config.node_selectors.is_None
    THEN ReturnedDict(EmptyDict)
    ELSE ReturnedDict(config_for(node, tags, run_config.node_selectors.dict,
                                 EmptyDict))

----------------------------------------------------------------------------
(* utils.clean_name and PipelineGenerator (kedro_vertexai/generator.py).   *)

\* the characters \w matches other than the underscore
WordChars ==
    {"a", "b", "c", "d", "e", "f", "g", "h", "i", "j", "k", "l", "m",
     "n", "o", "p", "q", "r", "s", "t", "u", "v", "w", "x", "y", "z",
     "A", "B", "C", "D", "E", "F", "G", "H", "I", "J", "K", "L", "M",
     "N", "O", "P", "Q", "R", "S", "T", "U", "V", "W", "X", "Y", "Z",
     "0", "1", "2", "3", "4", "5", "6", "7", "8", "9"}

\* re.sub(r"[\W_]+", "-", name): every maximal run of characters that are
\* no word characters, or are underscores, becomes one hyphen; in_run tells
\* that the character before belongs to such a run
\* re.sub(r"[\W_]", "-", name): every such character becomes a hyphen
RECURSIVE sub_runs_without_plus(_, _)
sub_runs_without_plus(s, in_run) ==
    IF s = <<>>
    THEN <<>>
    ELSE IF Head(s) \notin WordChars
    THEN <<"-">> \o sub_runs_without_plus(Tail(s), TRUE)
    ELSE <<Head(s)>> \o sub_runs_without_plus(Tail(s), FALSE)

RECURSIVE sub_runs(_, _)
sub_runs(s, in_run) ==
    IF s = <<>>
    THEN <<>>
    ELSE IF Head(s) \notin WordChars
    THEN (IF in_run THEN <<>> ELSE <<"-">>) \o sub_runs(Tail(s), TRUE)
    ELSE <<Head(s)>> \o sub_runs(Tail(s), FALSE)

\* str.strip("-")
RECURSIVE lstrip(_)
lstrip(s) == IF s # <<>> /\ Head(s) = "-" THEN lstrip(Tail(s)) ELSE s

RECURSIVE rstrip(_)
rstrip(s) ==
    IF s # <<>> /\ s[Len(s)] = "-"
    THEN rstrip(SubSeq(s, 1, Len(s) - 1))
    ELSE s

clean_name(nm) == rstrip(lstrip(sub_runs(nm, FALSE)))

\* the name of the operator that starts the MLflow run
mlflow_name == <<"mlflow-start-run">>

\* an order in which iterating the set of tags yields them; the resources
\* of the generated pipelines hold one entry besides the default, so that
\* the order does not show in what is resolved
tags_in_order(tags) ==
    CHOOSE q \in [1 .. Cardinality(tags) -> tags] :
        \A i, j \in DOMAIN q : i # j => q[i] # q[j]

\* _configure_resources: the limits set on the operator are the resolved
\* resources that are present and truthy
limits(resources) ==
    [f \in { g \in DOMAIN resources \cap ResourcesFields :
                 resources[g] # None } |-> resources[f]]

\* _create_mlflow_op
mlflow_op ==
    [name |-> mlflow_name, node_option |-> <<>>,
     limits |-> EmptyDict, node_selectors |-> EmptyDict]

\* _create_kedro_op for node n: the component is named by the clean name,
\* its command runs kedro with --node "<node.name>", and the resources are
\* resolved for the clean name and the node's tags
kedro_op(n) ==
    LET nm == clean_name(name(n))
        tags == tags_in_order(node_tags[n])
    IN  [name |-> nm,
         node_option |-> name(n),
         limits |-> limits(resources_for(nm, tags).value),
         node_selectors |-> node_selectors_for(nm, tags).value]

\* one iteration of "for node in node_dependencies" in _build_kfp_ops
build_loop_body(st, n) ==
    IF st.raised
    THEN st
    ELSE IF resources_for(clean_name(name(n)),
                          tags_in_order(node_tags[n])).kind = "KeyError"
    THEN [st EXCEPT !.raised = TRUE]
    ELSE [tasks |-> Append(st.tasks, kedro_op(n)),
          kfp_ops |-> DictSet(st.kfp_ops, clean_name(name(n)),
                              Len(st.tasks) + 1),
          raised |-> FALSE]

RECURSIVE build_loop(_, _, _)
build_loop(st, order, i) ==
    IF i > Len(order)
    THEN st
    ELSE build_loop(build_loop_body(st, order[i]), order, i + 1)

\* _build_kfp_ops: an operator is its position in tasks
build_kfp_ops(deps) ==
    build_loop(
        IF mlflow_enabled
        THEN [tasks |-> <<mlflow_op>>,
              kfp_ops |-> [k \in {mlflow_name} |-> 1],
              raised |-> FALSE]
        ELSE [tasks |-> <<>>, kfp_ops |-> EmptyDict, raised |-> FALSE],
        node_order(deps), 1)

\* set_dependencies: kfp_ops[name].after(kfp_ops[dependency_name])
set_dependencies(n, dependencies, ops) ==
    { <<ops[clean_name(name(n))], ops[clean_name(name(d))]>> :
        d \in dependencies }

\* convert_kedro_pipeline_to_kfp
convert_kedro_pipeline_to_kfp(deps) ==
    LET built == build_kfp_ops(deps)
    IN  IF built.raised
        THEN [kind |-> "KeyError", tasks |-> <<>>, kfp_ops |-> EmptyDict,
              after |-> {}]
        ELSE [kind |-> "pipeline",
              tasks |-> built.tasks,
              kfp_ops |-> built.kfp_ops,
              after |-> UNION { set_dependencies(n, deps[n], built.kfp_ops) :
                                  n \in DOMAIN deps }]

----------------------------------------------------------------------------
(* Specification.                                                          *)

NoResult ==
    [kind |-> "none", msg |-> "",
     nodes_mapping |-> EmptyDict, dependencies |-> EmptyDict]

\* GroupingConfig.cls: the default, and the other grouper provided
Identity_cls == "kedro_vertexai.grouping.IdentityNodeGrouper"

Tag_cls == "kedro_vertexai.grouping.TagNodeGrouper"

\* RunConfig as it is when the configuration sets none of the three fields
default_run_config ==
    [resources |-> default_resources,
     node_selectors |-> default_node_selectors,
     grouping |-> Identity_cls,
     dynamic_config_providers |-> <<>>,
     scheduled_run_name |-> None,
     schedules |-> NoneDict]

NoTarget == [node |-> <<>>, tags |-> <<>>]

pipeline_vars == <<node_name, node_tags, node_dependencies>>

config_vars == <<run_config, mlflow_enabled>>

resolution_vars == <<target, resolved>>

generator_vars == <<tasks, kfp_ops, after>>

command_vars == <<args, pc, calls, exit_code>>

world_vars == <<files, schedules, log>>

\* no command is running
NoArgs == [command |-> "none"]

\* nothing resolved, nothing generated and no command running yet
IdleProgram ==
    /\ dependencies_arg = EmptyDict
    /\ target = NoTarget
    /\ call = "none"
    /\ result = NoResult
    /\ resolved = NoResolution
    /\ tasks = <<>>
    /\ kfp_ops = EmptyDict
    /\ after = {}
    /\ args = NoArgs
    /\ pc = "idle"
    /\ calls = <<>>
    /\ exit_code = 0
    /\ log = <<>>

\* the same, in an empty project directory and an empty Vertex AI project
Idle ==
    /\ IdleProgram
    /\ files = EmptyDict
    /\ schedules = {}

Init ==
    /\ node_name = letter_names
    /\ node_dependencies \in DependencyGraphs
    /\ node_tags \in Taggings
    /\ run_config = default_run_config
    /\ mlflow_enabled = FALSE
    /\ Idle

IdentityGroup ==
    /\ call = "none"
    /\ call' = "IdentityNodeGrouper.group"
    /\ result' = IdentityNodeGrouper_group(node_dependencies)
    /\ UNCHANGED <<pipeline_vars, dependencies_arg, config_vars,
                   resolution_vars, generator_vars,
                   command_vars, world_vars>>

\* a TagNodeGrouper.group that merges in place: del node_dependencies[node]
\* for every node that joins a group
TagGroup_deletes_merged ==
    /\ call = "none"
    /\ call' = "TagNodeGrouper.group"
    /\ result' = TagNodeGrouper_group(node_dependencies)
    /\ node_dependencies' =
           [n \in { m \in DOMAIN node_dependencies :
                        grouping_tags(node_tags[m]) = {} } |->
               node_dependencies[n]]
    /\ UNCHANGED <<node_name, node_tags, dependencies_arg, config_vars,
                   resolution_vars, generator_vars,
                   command_vars, world_vars>>

TagGroup ==
    /\ call = "none"
    /\ call' = "TagNodeGrouper.group"
    /\ result' = TagNodeGrouper_group(node_dependencies)
    /\ UNCHANGED <<pipeline_vars, dependencies_arg, config_vars,
                   resolution_vars, generator_vars,
                   command_vars, world_vars>>

Next ==
    \/ IdentityGroup
    \/ TagGroup

\* Direct construction of a Grouping from a dependencies map.

DependencyMaps ==
    UNION { [K -> SUBSET NodeNames] : K \in SUBSET NodeNames }

InitGrouping ==
    /\ node_name = letter_names
    /\ node_tags = [n \in Nodes |-> {}]
    /\ node_dependencies = [n \in Nodes |-> {}]
    /\ run_config = default_run_config
    /\ mlflow_enabled = FALSE
    /\ Idle

NewGrouping ==
    /\ call = "none"
    /\ \E d \in DependencyMaps :
          /\ dependencies_arg' = d
          /\ result' = Grouping(EmptyDict, d)
    /\ call' = "Grouping"
    /\ UNCHANGED <<pipeline_vars, config_vars, resolution_vars,
                   generator_vars,
                   command_vars, world_vars>>

NextGrouping == NewGrouping

SpecGrouping == InitGrouping /\ [][NextGrouping]_vars

Spec == Init /\ [][Next]_vars

\* Resolution of resources and node selectors against a configuration.

\* the target's name, and the tags the configuration may have as keys
target_name == <<"n">>

ConfigTags == { <<"t", "1">>, <<"t", "2">> }

\* the tags a target may carry: those, and one that is never a key
TargetTags == ConfigTags \cup { <<"t", "3">> }

\* largest number of tags of a target
MaxTargetTags == 2

\* the orders in which the iteration of a target's tags may yield them
TagOrders ==
    { q \in UNION { [1 .. l -> TargetTags] : l \in 0 .. MaxTargetTags } :
        \A i, j \in DOMAIN q : i # j => q[i] # q[j] }

\* the value the entry under key k gives to the fields it sets
EntryValue(k) ==
    CASE k = default_key -> "default"
      [] k = target_name -> "node"
      [] k = <<"t", "1">> -> "tag1"
      [] OTHER -> "tag2"

\* RunConfig.resources: every entry sets any of the three fields
ResourcesDicts ==
    UNION { { [k \in K |->
                [f \in ResourcesFields |->
                    IF f \in S[k] THEN EntryValue(k) ELSE None]] :
              S \in [K -> SUBSET ResourcesFields] } :
            K \in SUBSET ({default_key, target_name} \cup ConfigTags) }

\* the constraints a node selector entry may set
SelectorConstraints == {"accelerator", "zone"}

\* RunConfig.node_selectors: every entry sets any of the constraints
SelectorDicts ==
    UNION { { [k \in K |-> [c \in S[k] |-> EntryValue(k)]] :
              S \in [K -> SUBSET SelectorConstraints] } :
            K \in SUBSET ({target_name} \cup ConfigTags) }

RunConfigs ==
    { [default_run_config EXCEPT !.resources = r] :
        r \in {NoneDict} \cup { SomeDict(d) : d \in ResourcesDicts } }
    \cup
    { [default_run_config EXCEPT !.node_selectors = s] :
        s \in {NoneDict} \cup { SomeDict(d) : d \in SelectorDicts } }

InitConfig ==
    /\ node_name = letter_names
    /\ node_tags = [n \in Nodes |-> {}]
    /\ node_dependencies = [n \in Nodes |-> {}]
    /\ run_config \in RunConfigs
    /\ mlflow_enabled = FALSE
    /\ Idle

ResourcesFor ==
    /\ call = "none"
    /\ \E tags \in TagOrders :
          /\ target' = [node |-> target_name, tags |-> tags]
          /\ resolved' = resources_for(target_name, tags)
    /\ call' = "RunConfig.resources_for"
    /\ UNCHANGED <<pipeline_vars, dependencies_arg, config_vars, result,
                   generator_vars,
                   command_vars, world_vars>>

NodeSelectorsFor ==
    /\ call = "none"
    /\ \E tags \in TagOrders :
          /\ target' = [node |-> target_name, tags |-> tags]
          /\ resolved' = node_selectors_for(target_name, tags)
    /\ call' = "RunConfig.node_selectors_for"
    /\ UNCHANGED <<pipeline_vars, dependencies_arg, config_vars, result,
                   generator_vars,
                   command_vars, world_vars>>

NextConfig ==
    \/ ResourcesFor
    \/ NodeSelectorsFor

SpecConfig == InitConfig /\ [][NextConfig]_vars

\* Generation of the Vertex AI pipeline from a kedro pipeline.

\* the names a node of a generated pipeline may have: kedro allows letters,
\* digits, hyphens, underscores and dots
NodeNameUniverse ==
    { <<"a", "-", "1">>, <<"a", ".", "1">>, <<"b">>, <<"c">>, <<"_">> }

\* node names are unique within a pipeline
Namings ==
    { f \in [Nodes -> NodeNameUniverse] :
        \A m, n \in Nodes : m # n => f[m] # f[n] }

\* the resources of the generated pipelines: the default alone, or with one
\* entry more, keyed by the name of a node ("b"), by the name of a group
\* ("x") or by a tag that is no grouping tag ("gx")
GeneratorResources ==
    {default_resources} \cup
    { SomeDict([k \in {default_key, key} |->
                  IF k = default_key
                  THEN default_resources.dict[default_key]
                  ELSE [cpu |-> "2", gpu |-> None, memory |-> None]]) :
        key \in { <<"b">>, <<"x">>, <<"g", "x">> } }

GeneratorConfigs ==
    { [default_run_config EXCEPT !.resources = r, !.grouping = cls] :
        r \in GeneratorResources, cls \in {Identity_cls, Tag_cls} }

\* The generated pipelines: pipelines whose node names need sanitizing,
\* untagged and under the default configuration, and pipelines with letter
\* names under every tagging and configuration.
InitGenerator ==
    /\ \/ /\ node_name \in Namings
          /\ node_dependencies \in DependencyGraphs
          /\ node_tags = [n \in Nodes |-> {}]
          /\ run_config = default_run_config
       \/ /\ node_name = letter_names
          /\ node_dependencies \in DependencyGraphs
          /\ node_tags \in Taggings
          /\ run_config \in GeneratorConfigs
    /\ mlflow_enabled \in BOOLEAN
    /\ Idle

\* the pipeline function of generate_pipeline, run by the compiler
GeneratePipeline ==
    /\ call = "none"
    /\ call' = "PipelineGenerator.generate_pipeline"
    /\ LET job == convert_kedro_pipeline_to_kfp(node_dependencies)
       IN  /\ result' = [NoResult EXCEPT !.kind = job.kind]
           /\ tasks' = job.tasks
           /\ kfp_ops' = job.kfp_ops
           /\ after' = job.after
    /\ UNCHANGED <<pipeline_vars, dependencies_arg, config_vars,
                   resolution_vars,
                   command_vars, world_vars>>

NextGenerator == GeneratePipeline

SpecGenerator == InitGenerator /\ [][NextGenerator]_vars

----------------------------------------------------------------------------
(* The commands of the plugin (kedro_vertexai/cli.py) and the helpers they *)
(* call (kedro_vertexai/utils.py).  A value of a Python option is a        *)
(* string: None, "" and "0" and "False" are the falsy ones.                *)

\* bool(v) of an option or a field
truthy(v) == v \notin {None, "", "0", "False"}

\* Command run-once.

\* largest return code of docker build and docker push
MaxReturnCode == 2

ReturnCodes == 0 .. MaxReturnCode

\* RunConfig.image
config_image == "config_img"

RunOnceArgs ==
    [command : {"run-once"}, auto_build : BOOLEAN, yes : BOOLEAN,
     image : {None, "new_img", "new_img:v1", "new_img:latest"},
     wait_for_completion : BOOLEAN]

\* image.split(":") of the images of the model
split_colon(image) ==
    CASE image = "new_img:v1" -> <<"new_img", "v1">>
      [] image = "new_img:latest" -> <<"new_img", "latest">>
      [] OTHER -> <<image>>

\* the warning that the tag of the remote image will be overwritten
warns_of_overwrite(image) ==
    LET splits == split_colon(image)
    IN  splits[Len(splits)] # "latest" /\ Len(splits) > 1

\* image if image else config.image
image_of(a) == IF truthy(a.image) THEN a.image ELSE config_image

\* a call made by the command, with what it returned
Call(fn, image, rv) == [fn |-> fn, image |-> image, rv |-> rv]

InitRunOnce ==
    /\ node_name = letter_names
    /\ node_tags = [n \in Nodes |-> {}]
    /\ node_dependencies = [n \in Nodes |-> {}]
    /\ run_config = default_run_config
    /\ mlflow_enabled = FALSE
    /\ Idle

\* run_once up to the first call: without --auto-build it warns and goes
\* on to submit, with it it asks for confirmation unless --yes is given
RunOnce ==
    /\ pc = "idle"
    /\ \E a \in RunOnceArgs :
          /\ args' = a
          /\ pc' = IF ~a.auto_build THEN "client.run_once"
                   ELSE IF ~a.yes THEN "confirm"
                   ELSE "docker_build"
          /\ log' = IF ~a.auto_build
                    THEN Append(log, "warning: Make sure that you've built")
                    ELSE IF warns_of_overwrite(image_of(a))
                    THEN Append(log, "warning: This operation will overwrite")
                    ELSE log
    /\ UNCHANGED <<pipeline_vars, dependencies_arg, config_vars,
                   resolution_vars, call, result, generator_vars,
                   calls, exit_code, files, schedules>>

\* confirm("Continue?"): exit(1) when the answer is no
Confirm ==
    /\ pc = "confirm"
    /\ \E answer \in BOOLEAN :
          /\ pc' = IF answer THEN "docker_build" ELSE "exited"
          /\ exit_code' = IF answer THEN exit_code ELSE 1
    /\ UNCHANGED <<pipeline_vars, dependencies_arg, config_vars,
                   resolution_vars, call, result, generator_vars,
                   args, calls, world_vars>>

\* a run_once that goes on to push whatever docker_build returned
DockerBuild_ignores_code ==
    /\ pc = "docker_build"
    /\ \E rv \in ReturnCodes :
          /\ calls' = Append(calls, Call("docker_build", image_of(args), rv))
          /\ log' = IF rv # 0
                    THEN Append(log, "error: Docker build has failed.")
                    ELSE log
          /\ pc' = "docker_push"
          /\ exit_code' = exit_code
    /\ UNCHANGED <<pipeline_vars, dependencies_arg, config_vars,
                   resolution_vars, call, result, generator_vars,
                   args, files, schedules>>

\* if (rv := docker_build(...)) != 0: exit(rv)
DockerBuild ==
    /\ pc = "docker_build"
    /\ \E rv \in ReturnCodes :
          /\ calls' = Append(calls, Call("docker_build", image_of(args), rv))
          /\ log' = IF rv # 0
                    THEN Append(log, "error: Docker build has failed.")
                    ELSE log
          /\ pc' = IF rv # 0 THEN "exited" ELSE "docker_push"
          /\ exit_code' = IF rv # 0 THEN rv ELSE exit_code
    /\ UNCHANGED <<pipeline_vars, dependencies_arg, config_vars,
                   resolution_vars, call, result, generator_vars,
                   args, files, schedules>>

\* if (rv := docker_push(image)) != 0: exit(rv)
DockerPush ==
    /\ pc = "docker_push"
    /\ \E rv \in ReturnCodes :
          /\ calls' = Append(calls, Call("docker_push", image_of(args), rv))
          /\ log' = IF rv # 0
                    THEN Append(log, "error: Docker push has failed.")
                    ELSE log
          /\ pc' = IF rv # 0 THEN "exited" ELSE "client.run_once"
          /\ exit_code' = IF rv # 0 THEN rv ELSE exit_code
    /\ UNCHANGED <<pipeline_vars, dependencies_arg, config_vars,
                   resolution_vars, call, result, generator_vars,
                   args, files, schedules>>

\* job = client.run_once(...), which returns the job or raises, and
\* job.wait() when --wait-for-completion is given
ClientRunOnce ==
    /\ pc = "client.run_once"
    /\ \E returned \in BOOLEAN :
          /\ calls' =
                Append(calls, Call("client.run_once", image_of(args), 0))
                \o (IF returned /\ args.wait_for_completion
                    THEN <<Call("job.wait", image_of(args), 0)>>
                    ELSE <<>>)
          /\ pc' = IF returned THEN "done" ELSE "raised"
    /\ UNCHANGED <<pipeline_vars, dependencies_arg, config_vars,
                   resolution_vars, call, result, generator_vars,
                   args, exit_code, world_vars>>

NextRunOnce ==
    \/ RunOnce
    \/ Confirm
    \/ DockerBuild
    \/ DockerPush
    \/ ClientRunOnce

SpecRunOnce == InitRunOnce /\ [][NextRunOnce]_vars

----------------------------------------------------------------------------
(* kedro vertexai initialize-job (cli.py), the parameter file and the      *)
(* dynamic configuration files (utils.py, dynamic_config.py).              *)

MaxProviders == 2

\* --output of initialize-job, a path of the project directory
output_path == "config.yaml"

\* project_path / settings.CONF_SOURCE / provider.target_env /
\* provider.target_config_file of the credentials providers
credentials_path == "conf/base/credentials.yml"

\* the --params texts: none, a JSON object, a JSON object inside quotes
ParamsTexts == {"", "{\"p1\": \"2\"}", "'{\"p1\": \"1\", \"p2\": \"v\"}'"}

\* params.strip("'")
strip_quotes(params) ==
    IF params = "'{\"p1\": \"1\", \"p2\": \"v\"}'"
    THEN "{\"p1\": \"1\", \"p2\": \"v\"}"
    ELSE params

\* json.loads on the stripped texts
json_loads(text) ==
    IF text = "{\"p1\": \"2\"}"
    THEN [p1 |-> "2"]
    ELSE [p1 |-> "1", p2 |-> "v"]

\* _load_yaml_or_empty_dict: the document of the file, {} when there is none
load_yaml_or_empty_dict(fs, path) ==
    IF path \in DOMAIN fs THEN fs[path] ELSE EmptyDict

\* save_yaml: the file holds the document from now on
save_yaml(fs, data, path) == DictSet(fs, path, data)

\* store_parameters_in_yaml writing a fresh run section
store_parameters_in_yaml_replaces_run(fs, params, output) ==
    IF params # ""
    THEN save_yaml(fs,
                   DictSet(load_yaml_or_empty_dict(fs, output), "run",
                           [params |-> json_loads(strip_quotes(params))]),
                   output)
    ELSE fs

\* store_parameters_in_yaml: the file system it leaves
store_parameters_in_yaml(fs, params, output) ==
    IF params # ""
    THEN LET parameters == json_loads(strip_quotes(params))
             config_data == load_yaml_or_empty_dict(fs, output)
             with_run == IF "run" \notin DOMAIN config_data
                         THEN DictSet(config_data, "run", EmptyDict)
                         ELSE config_data
         IN  save_yaml(fs,
                       DictSet(with_run, "run",
                               DictSet(with_run["run"], "params",
                                       parameters)),
                       output)
    ELSE fs

\* the run sections a parameter file may hold
RunSections ==
    { [k \in K |-> IF k = "data" THEN "abc" ELSE [p1 |-> "0", old |-> "x"]] :
        K \in SUBSET {"data", "params"} }

\* the parameter files there may be before the command: mappings whose
\* run entry, when there is one, is a mapping
ConfigDocuments ==
    { [k \in K |-> "66.6"] : K \in SUBSET {"other_keys"} }
    \cup
    { DictSet([k \in K |-> "66.6"], "run", r) :
        K \in SUBSET {"other_keys"}, r \in RunSections }

\* the credentials files there may be before the command
CredentialsDocuments ==
    { [k \in K |-> IF k = "gcp_credentials"
                   THEN [MLFLOW_TRACKING_TOKEN |-> "old-token"]
                   ELSE "kept"] :
        K \in SUBSET {"gcp_credentials", "other"} }

\* the project directories: each of the two files is there or is not
FileSystems ==
    { DictUpdate(c, d) :
        c \in {EmptyDict}
              \cup { [p \in {output_path} |-> doc] :
                       doc \in ConfigDocuments },
        d \in {EmptyDict}
              \cup { [p \in {credentials_path} |-> doc] :
                       doc \in CredentialsDocuments } }

\* the importable provider classes and the token their generate_config
\* puts in the file
provider_classes ==
    [c \in { <<"kedro_vertexai", "auth", "gcp",
               "MLFlowGoogleOAuthCredentialsProvider">>,
             <<"kedro_vertexai", "auth", "gcp_credentials_provider",
               "MLFlowGCPCredentialsProvider">> } |->
        IF c[3] = "gcp" THEN "oauth-token" ELSE "gcp-token"]

\* DynamicConfigProviderConfig: cls as its dot-separated components
ProviderConfigs ==
    { [cls |-> c, params |-> p] :
        c \in DOMAIN provider_classes, p \in {[client_id |-> "id"]} }
    \cup
    { [cls |-> <<"kedro_vertexai", "auth", "gcp",
                 "MLFlowGoogleOAuthCredentialsProvider">>,
       params |-> EmptyDict],
      [cls |-> <<"totally", "not", "existing", "class">>,
       params |-> EmptyDict],
      [cls |-> <<"Provider">>, params |-> EmptyDict] }

ProviderLists ==
    UNION { [1..n -> ProviderConfigs] : n \in 0..MaxProviders }

NoProvider == [is_None |-> TRUE, cls |-> <<>>]

\* provider_config.cls.rsplit(".", 1) unpacks into two names
rsplit_unpacks(cls) == Len(cls) >= 2

\* the try block of DynamicConfigProvider.build: the class is imported and
\* constructed with the params, any exception is caught and gives None
build(provider_config) ==
    IF /\ provider_config.cls \in DOMAIN provider_classes
       /\ "client_id" \in DOMAIN provider_config.params
    THEN [is_None |-> FALSE, cls |-> provider_config.cls]
    ELSE NoProvider

\* generate_config of the credentials providers
generate_config(provider) ==
    [gcp_credentials |->
        [MLFLOW_TRACKING_TOKEN |-> provider_classes[provider.cls]]]

\* DynamicConfigProvider.merge_with_existing: what it returns
merge_with_existing(existing_config, generated_config) ==
    DictUpdate(existing_config, generated_config)

\* _generate_and_save_dynamic_config: the value of merge_with_existing is
\* dropped and dynamic_config, which the merge leaves as it was, is saved
generate_and_save_dynamic_config(fs, provider) ==
    LET dynamic_config == generate_config(provider)
        existing_config == load_yaml_or_empty_dict(fs, credentials_path)
        merged == merge_with_existing(existing_config, dynamic_config)
    IN  save_yaml(fs, dynamic_config, credentials_path)

\* a logging record and a call made for the i-th provider
LogRecord(level, i) == [level |-> level, provider |-> i]

ProviderCall(fn, i) == [fn |-> fn, provider |-> i]

InitInitializeJob ==
    /\ node_name = letter_names
    /\ node_tags = [n \in Nodes |-> {}]
    /\ node_dependencies = [n \in Nodes |-> {}]
    /\ \E providers \in ProviderLists :
          run_config =
              [default_run_config EXCEPT
                  !.dynamic_config_providers = providers]
    /\ mlflow_enabled = FALSE
    /\ IdleProgram
    /\ files \in FileSystems
    /\ schedules = {}

\* initialize_job up to the end of store_parameters_in_yaml
InitializeJob ==
    /\ pc = "idle"
    /\ \E params \in ParamsTexts :
          args' = [command |-> "initialize-job", params |-> params,
                   output |-> output_path, provider |-> 1]
    /\ files' = store_parameters_in_yaml(files, args'.params, args'.output)
    /\ log' = IF args'.params = ""
              THEN <<LogRecord("debug", 0)>>
              ELSE <<>>
    /\ pc' = "materialize_dynamic_configuration"
    /\ UNCHANGED <<pipeline_vars, dependencies_arg, config_vars,
                   resolution_vars, call, result, generator_vars,
                   calls, exit_code, schedules>>

\* one round of the loop of materialize_dynamic_configuration whose
\* provider_config.cls has no dot: the unpacking of rsplit raises
\* ValueError before the try block of build is entered
BuildRaises ==
    /\ pc = "materialize_dynamic_configuration"
    /\ args.provider \in DOMAIN run_config.dynamic_config_providers
    /\ LET i == args.provider
           provider_config == run_config.dynamic_config_providers[i]
       IN  ~rsplit_unpacks(provider_config.cls)
    /\ pc' = "raised"
    /\ UNCHANGED <<pipeline_vars, dependencies_arg, config_vars,
                   resolution_vars, call, result, generator_vars,
                   args, calls, exit_code, world_vars>>

\* one round whose provider build returns None for: build logs the error,
\* the loop logs the warning and continues
SkipProvider ==
    /\ pc = "materialize_dynamic_configuration"
    /\ args.provider \in DOMAIN run_config.dynamic_config_providers
    /\ LET i == args.provider
           provider_config == run_config.dynamic_config_providers[i]
       IN  /\ rsplit_unpacks(provider_config.cls)
           /\ build(provider_config).is_None
           /\ log' = log \o <<LogRecord("error", i),
                              LogRecord("warning", i)>>
           /\ args' = [args EXCEPT !.provider = i + 1]
    /\ UNCHANGED <<pipeline_vars, dependencies_arg, config_vars,
                   resolution_vars, call, result, generator_vars,
                   pc, calls, exit_code, files, schedules>>

\* one round of the loop whose provider is built: its configuration is
\* generated and saved
GenerateAndSave ==
    /\ pc = "materialize_dynamic_configuration"
    /\ args.provider \in DOMAIN run_config.dynamic_config_providers
    /\ LET i == args.provider
           provider_config == run_config.dynamic_config_providers[i]
           provider == build(provider_config)
       IN  /\ rsplit_unpacks(provider_config.cls)
           /\ ~provider.is_None
           /\ files' = generate_and_save_dynamic_config(files, provider)
           /\ calls' = calls \o <<ProviderCall("generate_config", i),
                                  ProviderCall("merge_with_existing", i),
                                  ProviderCall("save_yaml", i)>>
           /\ args' = [args EXCEPT !.provider = i + 1]
    /\ UNCHANGED <<pipeline_vars, dependencies_arg, config_vars,
                   resolution_vars, call, result, generator_vars,
                   pc, exit_code, schedules, log>>

\* the loop is over and initialize_job returns
Materialized ==
    /\ pc = "materialize_dynamic_configuration"
    /\ args.provider > Len(run_config.dynamic_config_providers)
    /\ pc' = "done"
    /\ UNCHANGED <<pipeline_vars, dependencies_arg, config_vars,
                   resolution_vars, call, result, generator_vars,
                   args, calls, exit_code, world_vars>>

NextInitializeJob ==
    \/ InitializeJob
    \/ BuildRaises
    \/ SkipProvider
    \/ GenerateAndSave
    \/ Materialized

SpecInitializeJob == InitInitializeJob /\ [][NextInitializeJob]_vars

----------------------------------------------------------------------------
(* kedro vertexai schedule (cli.py) and VertexAIPipelinesClient.schedule   *)
(* (client.py).                                                            *)

MaxSchedules == 3

\* RunConfig.scheduled_run_name of the project and another display name
scheduled_run_name == "scheduled-run"

other_name == "other-run"

ScheduleFields ==
    {"cron_expression", "timezone", "start_time", "end_time",
     "allow_queueing", "max_run_count", "max_concurrent_run_count"}

\* ScheduleConfig(): the defaults of the fields
default_schedule_config ==
    [cron_expression |-> "0 * * * *", timezone |-> "Etc/UTC",
     start_time |-> None, end_time |-> None, allow_queueing |-> "False",
     max_run_count |-> None, max_concurrent_run_count |-> "1"]

\* a ScheduleConfig that sets every field but end_time
pipeline_schedule_config ==
    [cron_expression |-> "5 4 * * *", timezone |-> "Europe/Warsaw",
     start_time |-> "2029-01-01", end_time |-> None,
     allow_queueing |-> "True", max_run_count |-> "5",
     max_concurrent_run_count |-> "3"]

\* RunConfig.schedules: None, or entries for default_schedule and for the
\* pipeline my-pipeline
SchedulesConfigs ==
    {NoneDict}
    \cup
    { SomeDict([k \in K |-> IF k = "default_schedule"
                            THEN default_schedule_config
                            ELSE pipeline_schedule_config]) :
        K \in SUBSET {"default_schedule", "my-pipeline"} }

\* the options of the schedule command as click hands them over
ScheduleArgs ==
    [command : {"schedule"},
     pipeline : {"__default__", "my-pipeline"},
     cron_expression : {None, "2 * * * *"},
     timezone : {None, "test-timezone"},
     start_time : {None, "2030-01-01"},
     end_time : {None, "2031-01-01"},
     allow_queueing : {None, "False", "True"},
     max_run_count : {None, "0", "10"},
     max_concurrent_run_count : {None, "0", "2"}]

\* the schedules of the Vertex AI project before the command: every third
\* one has another display name
Schedule(id) ==
    [id |-> id,
     display_name |-> IF id % 3 = 0 THEN other_name ELSE scheduled_run_name]

ExistingSchedules == SUBSET { Schedule(id) : id \in 1..MaxSchedules }

\* config.schedules.get(pipeline, config.schedules["default_schedule"]):
\* the key of the entry it returns; the default is evaluated first
schedule_key(schedules_dict, pipeline) ==
    IF pipeline \in DOMAIN schedules_dict
    THEN pipeline
    ELSE "default_schedule"

\* x if x else configured, for every field
override(schedule_config, a) ==
    [f \in ScheduleFields |->
        IF truthy(a[f]) THEN a[f] ELSE schedule_config[f]]

ScheduleCall(pipeline, schedule_config) ==
    [fn |-> "client.schedule", pipeline |-> pipeline,
     schedule_config |-> schedule_config]

\* the parameters of PipelineGenerator.generate_pipeline after self
generate_pipeline_parameters ==
    <<"pipeline", "image", "image_pull_policy", "token">>

\* self.generator.generate_pipeline(pipeline, image, token, params=params)
\* in VertexAIPipelinesClient.compile
compile_call == [positional |-> 3, keywords |-> {"params"}]

\* Python binds the arguments of a call to parameters without defaults
binds(parameters, c) ==
    LET rest == { parameters[i] : i \in (c.positional + 1)..Len(parameters) }
    IN  /\ c.positional <= Len(parameters)
        /\ c.keywords = rest

\* _cleanup_old_schedule: the schedules left after those with the display
\* name are listed and deleted
cleanup_old_schedule(existing, display_name) ==
    { s \in existing : s.display_name # display_name }

InitSchedule ==
    /\ node_name = letter_names
    /\ node_tags = [n \in Nodes |-> {}]
    /\ node_dependencies = [n \in Nodes |-> {}]
    /\ \E s \in SchedulesConfigs :
          run_config =
              [default_run_config EXCEPT
                  !.scheduled_run_name = scheduled_run_name,
                  !.schedules = s]
    /\ mlflow_enabled = FALSE
    /\ IdleProgram
    /\ files = EmptyDict
    /\ schedules \in ExistingSchedules

\* the schedule command up to its call of client.schedule: the entry of
\* the configuration is overridden in place and handed over
CliSchedule ==
    /\ pc = "idle"
    /\ \E a \in ScheduleArgs : args' = a
    /\ IF \/ run_config.schedules.is_None
          \/ "default_schedule" \notin DOMAIN run_config.schedules.dict
       THEN /\ pc' = "raised"
            /\ UNCHANGED <<run_config, calls>>
       ELSE LET key == schedule_key(run_config.schedules.dict,
                                    args'.pipeline)
                schedule_config ==
                    override(run_config.schedules.dict[key], args')
            IN  /\ run_config' =
                      [run_config EXCEPT
                          !.schedules.dict[key] = schedule_config]
                /\ calls' =
                      <<ScheduleCall(args'.pipeline, schedule_config)>>
                /\ pc' = "client.schedule"
    /\ UNCHANGED <<pipeline_vars, dependencies_arg, mlflow_enabled,
                   resolution_vars, call, result, generator_vars,
                   exit_code, world_vars>>

\* VertexAIPipelinesClient.schedule: the old schedules are deleted, the
\* pipeline is compiled and the schedule is created
ClientSchedule ==
    /\ pc = "client.schedule"
    /\ LET kept == cleanup_old_schedule(schedules,
                                        run_config.scheduled_run_name)
       IN  IF binds(generate_pipeline_parameters, compile_call)
           THEN /\ schedules' =
                      kept \cup {[id |-> MaxSchedules + 1,
                                  display_name |->
                                      run_config.scheduled_run_name]}
                /\ pc' = "done"
           ELSE /\ schedules' = kept
                /\ pc' = "raised"
    /\ UNCHANGED <<pipeline_vars, dependencies_arg, config_vars,
                   resolution_vars, call, result, generator_vars,
                   args, calls, exit_code, files, log>>

NextSchedule ==
    \/ CliSchedule
    \/ ClientSchedule

SpecSchedule == InitSchedule /\ [][NextSchedule]_vars

----------------------------------------------------------------------------
(* utils.clean_name on arbitrary strings.                                  *)

MaxNameLen == 4

\* the characters of the names: letters of both cases, a digit, and
\* characters that are no letters or digits
CleanNameChars == {"a", "B", "1", "_", "-", "."}

CleanNameInputs ==
    UNION { [1..n -> CleanNameChars] : n \in 0..MaxNameLen }

CleanNameCall(nm, rv) == [fn |-> "clean_name", name |-> nm, rv |-> rv]

InitCleanName ==
    /\ node_name = letter_names
    /\ node_tags = [n \in Nodes |-> {}]
    /\ node_dependencies = [n \in Nodes |-> {}]
    /\ run_config = default_run_config
    /\ mlflow_enabled = FALSE
    /\ dependencies_arg = EmptyDict
    /\ target = NoTarget
    /\ call = "none"
    /\ result = NoResult
    /\ resolved = NoResolution
    /\ tasks = <<>>
    /\ kfp_ops = EmptyDict
    /\ after = {}
    /\ \E nm \in CleanNameInputs :
          args = [command |-> "clean_name", name |-> nm]
    /\ pc = "idle"
    /\ calls = <<>>
    /\ exit_code = 0
    /\ log = <<>>
    /\ files = EmptyDict
    /\ schedules = {}

\* clean_name(name) is called and returns
CleanName ==
    /\ pc = "idle"
    /\ calls' = <<CleanNameCall(args.name, clean_name(args.name))>>
    /\ pc' = "done"
    /\ UNCHANGED <<pipeline_vars, dependencies_arg, config_vars,
                   resolution_vars, call, result, generator_vars,
                   args, exit_code, world_vars>>

NextCleanName == CleanName

SpecCleanName == InitCleanName /\ [][NextCleanName]_vars

----------------------------------------------------------------------------
(* Vocabulary of the properties.                                           *)

Returned == result.kind = "Grouping"

RaisedGroupingException == result.kind = "GroupingException"

ByIdentity == call = "IdentityNodeGrouper.group"

ByTag == call = "TagNodeGrouper.group"

\* the grouping tags of node n
GroupingTagsOf(n) == grouping_tags(node_tags[n])

\* some node carries two or more tags that start with the prefix
AmbiguouslyTagged == \E n \in Nodes : Cardinality(GroupingTagsOf(n)) >= 2

\* the groups whose set holds node n in the returned nodes_mapping
GroupsOf(n) ==
    { g \in DOMAIN result.nodes_mapping : n \in result.nodes_mapping[g] }

\* the names reachable from the names S along the edges of the map d
RECURSIVE Reachable(_, _)
Reachable(d, S) ==
    LET next == S \cup UNION { d[k] : k \in S \cap DOMAIN d }
    IN  IF next = S THEN S ELSE Reachable(d, next)

\* d has a directed cycle, of any length, a self-dependency included
HasDirectedCycle(d) == \E k \in DOMAIN d : k \in Reachable(d, d[k])

\* d has a directed cycle through two or more different names
HasCycleBetweenGroups(d) ==
    HasDirectedCycle([k \in DOMAIN d |-> d[k] \ {k}])

\* the node-to-group assignment TagNodeGrouper.group works with
Belonging ==
    tag_groups(node_dependencies, node_order(node_dependencies)).group_belonging

\* the node-level dependencies translated through the assignment
CollapsedDependencies ==
    LET assigned == Belonging
    IN  [G \in { assigned[name(n)] : n \in Nodes } |->
            UNION { { assigned[name(p)] : p \in node_dependencies[n] } :
                        n \in { m \in Nodes : assigned[name(m)] = G } }
                \ {G}]

----------------------------------------------------------------------------
(* The properties.                                                         *)

\* C1: in every Grouping returned by IdentityNodeGrouper.group or
\* TagNodeGrouper.group the sets of nodes_mapping partition the input nodes:
\* every node is in exactly one group's set and every member is a node.
C1_NodesMappingPartitionsNodes ==
    ((ByIdentity \/ ByTag) /\ Returned) =>
        /\ \A n \in Nodes : Cardinality(GroupsOf(n)) = 1
        /\ Values(result.nodes_mapping) \subseteq Nodes

\* C2: Grouping(dependencies=d) raises GroupingException exactly when d has a
\* directed cycle of any length, and yields a Grouping when d is acyclic.
C2_ConstructionRaisesOnEveryCycle ==
    (call = "Grouping") =>
        /\ HasDirectedCycle(dependencies_arg) <=> RaisedGroupingException
        /\ ~HasDirectedCycle(dependencies_arg) <=> Returned

\* C3: IdentityNodeGrouper.group on an acyclic graph returns a Grouping with
\* one singleton group per node, keyed by the node's name, whose dependencies
\* are the names of the node's parents.
C3_IdentityIsIsomorphic ==
    ByIdentity =>
        /\ Returned
        /\ DOMAIN result.nodes_mapping = NodeNames
        /\ DOMAIN result.dependencies = NodeNames
        /\ \A n \in Nodes :
              /\ result.nodes_mapping[name(n)] = {n}
              /\ result.dependencies[name(n)] =
                     { name(p) : p \in node_dependencies[n] }

\* a node with two parents has been grouped by IdentityNodeGrouper
C3_Witness ==
    /\ ByIdentity
    /\ Returned
    /\ \E n \in Nodes : Cardinality(node_dependencies[n]) = 2

\* C4: after TagNodeGrouper.group returns, a node with exactly one grouping
\* tag P+X is a member of nodes_mapping[X] and of no entry keyed by its own
\* name.
C4_TaggedNodeIsInItsGroup ==
    (ByTag /\ Returned) =>
        \A n \in Nodes : \A t \in GroupingTagsOf(n) :
            /\ group_name_of(t) \in DOMAIN result.nodes_mapping
            /\ n \in result.nodes_mapping[group_name_of(t)]
            /\ name(n) \in DOMAIN result.nodes_mapping =>
                   n \notin result.nodes_mapping[name(n)]

\* C5: when some node carries two or more grouping tags,
\* TagNodeGrouper.group raises GroupingException and returns no Grouping.
C5_AmbiguousTaggingRaises ==
    (ByTag /\ AmbiguouslyTagged) =>
        /\ RaisedGroupingException
        /\ result.msg = "multiple tags"
        /\ result.nodes_mapping = EmptyDict
        /\ result.dependencies = EmptyDict

\* an ambiguously tagged node came after a node that had been merged into
\* its group, and the call raised
C5_Witness ==
    /\ ByTag
    /\ RaisedGroupingException
    /\ \E n, m \in Nodes :
          /\ m < n
          /\ Cardinality(GroupingTagsOf(m)) = 1
          /\ Cardinality(GroupingTagsOf(n)) = 2

C7_NoSelfDependency ==
    (ByTag /\ Returned) =>
        \A G \in DOMAIN result.dependencies : G \notin result.dependencies[G]

\* every node of the chain 1 -> 2 -> 3 was tagged into the group "x", which
\* has no dependency
C7_Witness ==
    /\ ByTag
    /\ Returned
    /\ node_dependencies = [n \in Nodes |-> IF n = 1 THEN {} ELSE {n - 1}]
    /\ \A n \in Nodes : GroupingTagsOf(n) = { <<"g", ".", "x">> }
    /\ result.nodes_mapping = (<<"x">> :> Nodes)
    /\ result.dependencies = (<<"x">> :> {})

C9_UntaggedNodeKeepsSingleton ==
    (ByTag /\ Returned) =>
        \A n \in Nodes :
            GroupingTagsOf(n) = {} =>
                /\ name(n) \in DOMAIN result.nodes_mapping
                /\ result.nodes_mapping[name(n)] = {n}

\* C10: in every Grouping returned by a grouper, every key of dependencies
\* and every name inside a dependency set is a key of nodes_mapping.
C10_DependenciesNameKnownGroups ==
    ((ByIdentity \/ ByTag) /\ Returned) =>
        /\ DOMAIN result.dependencies \subseteq DOMAIN result.nodes_mapping
        /\ Values(result.dependencies) \subseteq DOMAIN result.nodes_mapping

\* C11: a call of IdentityNodeGrouper.group or TagNodeGrouper.group, whether
\* it returns or raises, leaves the dependency graph it was given as it was:
\* the same nodes as keys with the same parent sets, and the same names and
\* tags of the nodes.
C11_InputGraphIsReadOnly ==
    [][call' # call =>
          /\ node_dependencies' = node_dependencies
          /\ node_name' = node_name
          /\ node_tags' = node_tags]_vars

\* TagNodeGrouper.group returned a grouping in which a node with parents
\* joined a group
C11_Witness ==
    /\ ByTag
    /\ Returned
    /\ \E n \in Nodes :
          /\ GroupingTagsOf(n) # {}
          /\ node_dependencies[n] # {}
          /\ name(n) \notin DOMAIN result.nodes_mapping

----------------------------------------------------------------------------
(* Vocabulary of the resolution properties.                                *)

ByResourcesFor == call = "RunConfig.resources_for"

ByNodeSelectorsFor == call = "RunConfig.node_selectors_for"

\* the configured specs the resolution read
Params ==
    IF ByResourcesFor
    THEN run_config.resources.dict
    ELSE run_config.node_selectors.dict

\* a resolution has returned, from specs that are configured and, for the
\* resources, hold the default entry
Resolved ==
    /\ ByResourcesFor \/ ByNodeSelectorsFor
    /\ resolved.kind = "dict"
    /\ ByResourcesFor => ~run_config.resources.is_None
    /\ ByNodeSelectorsFor => ~run_config.node_selectors.is_None

\* the fields and constraints a spec may set
Fields == ResourcesFields \cup SelectorConstraints

\* the entry under key k exists and gives field f a non-null value
Sets(k, f) ==
    /\ k \in DOMAIN Params
    /\ f \in DOMAIN Params[k]
    /\ Params[k][f] # None

\* the resolved value of field f, None when the result has no such key
ResolvedValue(f) ==
    IF f \in DOMAIN resolved.value THEN resolved.value[f] ELSE None

\* the value the default gives to field f; node selectors have no default
DefaultValue(f) ==
    IF ByResourcesFor /\ f \in ResourcesFields
    THEN Params[default_key][f]
    ELSE None

\* the target's tags, in the order they were applied, that set field f
TagsSetting(f) == { i \in DOMAIN target.tags : Sets(target.tags[i], f) }

\* the keys whose entries the resolution applied, in the order of their
\* application: the default, the matching tags, the matching name
Applied ==
    (IF ByResourcesFor THEN <<default_key>> ELSE <<>>)
        \o SelectSeq(target.tags \o <<target.node>>,
                     LAMBDA k : k \in DOMAIN Params)

\* the last non-null value of field f among the applied entries
LastNonNull(f) ==
    LET setting == { i \in DOMAIN Applied : Sets(Applied[i], f) }
    IN  IF setting = {}
        THEN None
        ELSE Params[Applied[CHOOSE i \in setting :
                                \A j \in setting : j <= i]][f]

\* C12: in resources_for and node_selectors_for the entry keyed by the
\* target's name wins over the entries keyed by its tags: a field the name's
\* entry sets has the name's value, a field only tag entries set has a tag's
\* value, and a field neither sets has the default's value.
C12_NameEntryWinsOverTagEntry ==
    Resolved =>
        \A f \in Fields :
            IF Sets(target.node, f)
            THEN ResolvedValue(f) = Params[target.node][f]
            ELSE IF TagsSetting(f) # {}
            THEN \E i \in TagsSetting(f) :
                     ResolvedValue(f) = Params[target.tags[i]][f]
            ELSE ResolvedValue(f) = DefaultValue(f)

\* the default sets all fields, the tag's entry cpu and gpu, the name's
\* entry cpu alone: cpu is the name's, gpu the tag's, memory the default's
C12_Witness ==
    /\ Resolved
    /\ ByResourcesFor
    /\ target.tags = << <<"t", "1">> >>
    /\ Sets(target.node, "cpu") /\ ~Sets(target.node, "gpu")
    /\ ~Sets(target.node, "memory")
    /\ Sets(<<"t", "1">>, "cpu") /\ Sets(<<"t", "1">>, "gpu")
    /\ ~Sets(<<"t", "1">>, "memory")
    /\ resolved.value =
           [cpu |-> "node", gpu |-> "tag1", memory |-> "default"]

\* C13: a null field of a matching entry never replaces the value
\* accumulated so far: every resolved field has the last non-null value among
\* the default and the matching entries in the order of their application,
\* and is null only if all of them are null.
C13_NullNeverOverrides ==
    Resolved => \A f \in Fields : ResolvedValue(f) = LastNonNull(f)

\* the name's entry, applied last, leaves cpu and gpu null: cpu keeps the
\* default's value and gpu the tag's
C13_Witness ==
    /\ Resolved
    /\ ByResourcesFor
    /\ target.node \in DOMAIN Params
    /\ Params[target.node]["cpu"] = None
    /\ Params[target.node]["gpu"] = None
    /\ Params[default_key]["gpu"] = None
    /\ resolved.value["cpu"] = "default"
    /\ resolved.value["gpu"] = "tag2"

\* the target's name is no key of the specs, and none of its tags is
Unmatched ==
    /\ target.node \notin DOMAIN Params
    /\ \A i \in DOMAIN target.tags : target.tags[i] \notin DOMAIN Params

\* C14: when neither the target's name nor any of its tags is a key of the
\* configured specs, resources_for returns exactly the fields of the default
\* entry and node_selectors_for returns an empty mapping.
C14_UnmatchedGetsDefault ==
    (Resolved /\ Unmatched) =>
        /\ ByResourcesFor =>
              /\ DOMAIN resolved.value = ResourcesFields
              /\ \A f \in ResourcesFields :
                    resolved.value[f] = Params[default_key][f]
        /\ ByNodeSelectorsFor => DOMAIN resolved.value = {}

\* a target with two tags, resolved against resources that hold an entry
\* for another tag and a default with a value and a null
C14_Witness ==
    /\ Resolved
    /\ Unmatched
    /\ ByResourcesFor
    /\ Len(target.tags) = 2
    /\ DOMAIN Params \ {default_key} # {}
    /\ resolved.value["cpu"] = "default"
    /\ resolved.value["gpu"] = None

----------------------------------------------------------------------------
(* Vocabulary of the generation properties.                                *)

ByGenerate == call = "PipelineGenerator.generate_pipeline"

\* the generation ran to its end
Generated == ByGenerate /\ result.kind = "pipeline"

\* the grouping the configured grouper makes of the pipeline
ConfiguredGrouping ==
    IF run_config.grouping = Tag_cls
    THEN TagNodeGrouper_group(node_dependencies)
    ELSE IdentityNodeGrouper_group(node_dependencies)

\* the pipeline is generated and its configured grouping exists
GeneratedWithGrouping == Generated /\ ConfiguredGrouping.kind = "Grouping"

\* the operators that run kedro nodes
KedroUnits == { i \in DOMAIN tasks : tasks[i].node_option # <<>> }

\* ",".join(q)
RECURSIVE join(_)
join(q) ==
    IF q = <<>> THEN <<>>
    ELSE IF Len(q) = 1 THEN q[1]
    ELSE q[1] \o <<",">> \o join(Tail(q))

\* the comma-joined lists of the names of the nodes S, in every order
JoinedNames(S) ==
    { join([i \in DOMAIN q |-> name(q[i])]) :
        q \in { r \in [1 .. Cardinality(S) -> S] :
                  \A i, j \in DOMAIN r : i # j => r[i] # r[j] } }

\* the units whose command names exactly the member nodes of group g
UnitsOf(g) ==
    { i \in KedroUnits :
        tasks[i].node_option
            \in JoinedNames(ConfiguredGrouping.nodes_mapping[g]) }

\* the tags of all member nodes of group g
TagsOfGroup(g) ==
    UNION { node_tags[n] : n \in ConfiguredGrouping.nodes_mapping[g] }

\* some two nodes have names that clean_name maps to the same name
CleanNamesCollide ==
    \E m, n \in Nodes :
        m # n /\ clean_name(name(m)) = clean_name(name(n))

\* some node has a name that clean_name maps to the empty string
CleanNameEmpty == \E n \in Nodes : clean_name(name(n)) = <<>>

\* the 'runs after' relation as a map from every operator to those it
\* runs after
RunsAfter ==
    [i \in DOMAIN tasks |-> { j \in DOMAIN tasks : <<i, j>> \in after }]

\* C15: the generator emits exactly one unit per group of the configured
\* grouping, and the unit's kedro command names all member nodes of the
\* group, comma-joined; two nodes that share a grouping tag under
\* TagNodeGrouper make one unit naming both.
C15_OneUnitPerGroup ==
    GeneratedWithGrouping =>
        /\ Cardinality(KedroUnits)
               = Cardinality(DOMAIN ConfiguredGrouping.nodes_mapping)
        /\ \A g \in DOMAIN ConfiguredGrouping.nodes_mapping :
               Cardinality(UnitsOf(g)) = 1

\* C16: the resources and node selectors of a group's unit are resolved
\* with the group's name as the target and the union of the tags of all
\* member nodes: an entry keyed by the group's name or by a member's tag
\* applies, an entry keyed only by a merged member's name does not.
C16_UnitResolvedForGroup ==
    GeneratedWithGrouping =>
        \A g \in DOMAIN ConfiguredGrouping.nodes_mapping :
            /\ UnitsOf(g) # {}
            /\ \A i \in UnitsOf(g) :
                  /\ tasks[i].limits =
                        limits(resources_for(
                            g, tags_in_order(TagsOfGroup(g))).value)
                  /\ tasks[i].node_selectors =
                        node_selectors_for(
                            g, tags_in_order(TagsOfGroup(g))).value

\* C17: the ordering edges among the units are exactly the edges of the
\* grouping's dependencies: the unit of G runs after the unit of H iff H is
\* in dependencies[G], and there is no other edge between kedro units.
C17_EdgesAreGroupDependencies ==
    GeneratedWithGrouping =>
        LET G == ConfiguredGrouping
        IN  /\ \A g, h \in DOMAIN G.nodes_mapping :
                  (g \in DOMAIN G.dependencies /\ h \in G.dependencies[g])
                      <=> \E i \in UnitsOf(g), j \in UnitsOf(h) :
                              <<i, j>> \in after
            /\ \A e \in after :
                  (e[1] \in KedroUnits /\ e[2] \in KedroUnits) =>
                      \E g, h \in DOMAIN G.nodes_mapping :
                          e[1] \in UnitsOf(g) /\ e[2] \in UnitsOf(h)

\* C18: when two different nodes have names that sanitize to the same unit
\* name, the generation raises an error.
C18_CollidingNamesRaise ==
    (ByGenerate /\ CleanNamesCollide) => result.kind # "pipeline"

\* C19: when the sanitized name of a unit is empty, the generation raises an
\* error.
C19_EmptyNameRaises ==
    (ByGenerate /\ CleanNameEmpty) => result.kind # "pipeline"

\* C20: in every generated pipeline the 'runs after' relation between the
\* units is acyclic, and no unit runs after itself.
C20_RunsAfterIsAcyclic ==
    Generated => ~HasDirectedCycle(RunsAfter)

----------------------------------------------------------------------------
(* Vocabulary of the command properties.                                   *)

\* the names of the calls made so far, in their order
CallNames == [i \in DOMAIN calls |-> calls[i].fn]

\* the calls made so far to fn
CallsTo(fn) == { i \in DOMAIN calls : calls[i].fn = fn }

\* the command has ended: it returned, exited or raised
Ended == pc \in {"done", "exited", "raised"}

\* run-once was given --auto-build and --yes
AutoBuildYes ==
    /\ args.command = "run-once"
    /\ args.auto_build
    /\ args.yes

\* C21: in run-once with --auto-build --yes the steps run in the order
\* docker build, docker push, submit: a non-zero code of docker_build is the
\* exit code and neither docker_push nor client.run_once is called; after a
\* build that returned 0 a non-zero code of docker_push is the exit code and
\* client.run_once is not called; client.run_once is called exactly once
\* only when both returned 0.
C21_BuildPushSubmitInOrder ==
    AutoBuildYes =>
        /\ \A i \in DOMAIN calls :
              /\ calls[i].fn = "docker_build" => i = 1
              /\ calls[i].fn = "docker_push" =>
                    i = 2 /\ calls[1].fn = "docker_build" /\ calls[1].rv = 0
              /\ calls[i].fn = "client.run_once" =>
                    /\ i = 3
                    /\ calls[1].fn = "docker_build" /\ calls[1].rv = 0
                    /\ calls[2].fn = "docker_push" /\ calls[2].rv = 0
        /\ Ended =>
              /\ calls # <<>> /\ calls[1].fn = "docker_build"
              /\ calls[1].rv # 0 =>
                    /\ pc = "exited" /\ exit_code = calls[1].rv
                    /\ Len(calls) = 1
              /\ calls[1].rv = 0 =>
                    /\ Len(calls) >= 2 /\ calls[2].fn = "docker_push"
                    /\ calls[2].rv # 0 =>
                          /\ pc = "exited" /\ exit_code = calls[2].rv
                          /\ Len(calls) = 2
                    /\ calls[2].rv = 0 =>
                          Cardinality(CallsTo("client.run_once")) = 1

\* the build returned 0, the push did not, and the command exited
C21_Witness ==
    /\ AutoBuildYes
    /\ pc = "exited"
    /\ Len(calls) = 2
    /\ calls[1].rv = 0
    /\ calls[2].rv = MaxReturnCode

\* initialize-job and its files
InitializeJobRuns == args.command = "initialize-job"

\* the step that is store_parameters_in_yaml
Stores == pc = "idle" /\ pc' = "materialize_dynamic_configuration"

\* the providers the loop of materialize_dynamic_configuration has passed
Providers == run_config.dynamic_config_providers

Passed == { i \in DOMAIN Providers : i < args.provider }

\* the class of the i-th provider can be imported and instantiated with
\* its params
Loadable(i) ==
    /\ Providers[i].cls \in DOMAIN provider_classes
    /\ "client_id" \in DOMAIN Providers[i].params

CallsFor(fn, i) ==
    { k \in DOMAIN calls : calls[k] = ProviderCall(fn, i) }

WarningsFor(i) ==
    { k \in DOMAIN log : log[k] = LogRecord("warning", i) }

\* C22: store_parameters_in_yaml with non-empty params sets run.params of
\* the output file to the parsed parameters and leaves every other key of a
\* pre-existing output file, top-level and under run, and every other file
\* unchanged; with empty params it creates and modifies no file.
C22_StoreSetsOnlyRunParams ==
    [][Stores =>
          IF args'.params = ""
          THEN files' = files
          ELSE LET output == args'.output
                   old == IF output \in DOMAIN files
                          THEN files[output]
                          ELSE EmptyDict
                   old_run == IF "run" \in DOMAIN old
                              THEN old["run"]
                              ELSE EmptyDict
               IN  /\ DOMAIN files' = DOMAIN files \cup {output}
                   /\ \A p \in DOMAIN files \ {output} :
                         files'[p] = files[p]
                   /\ DOMAIN files'[output] = DOMAIN old \cup {"run"}
                   /\ \A k \in DOMAIN old \ {"run"} :
                         files'[output][k] = old[k]
                   /\ DOMAIN files'[output]["run"]
                         = DOMAIN old_run \cup {"params"}
                   /\ \A k \in DOMAIN old_run \ {"params"} :
                         files'[output]["run"][k] = old_run[k]
                   /\ files'[output]["run"]["params"]
                         = json_loads(strip_quotes(args'.params))]_vars

\* parameters were stored into a file that had other_keys and run.data
C22_Witness ==
    /\ InitializeJobRuns
    /\ args.params = "'{\"p1\": \"1\", \"p2\": \"v\"}'"
    /\ output_path \in DOMAIN files
    /\ DOMAIN files[output_path] = {"other_keys", "run"}
    /\ DOMAIN files[output_path]["run"] = {"data", "params"}
    /\ files[output_path]["run"]["params"] = [p1 |-> "1", p2 |-> "v"]
    /\ files[output_path]["run"]["data"] = "abc"

\* C23: materialize_dynamic_configuration processes the configured
\* providers in order and never raises; a provider whose class cannot be
\* loaded or instantiated gets one warning and no generate or save, every
\* other provider of the list is generated and saved once.
C23_UnloadableProviderIsSkipped ==
    InitializeJobRuns =>
        /\ pc # "raised"
        /\ pc = "done" => Passed = DOMAIN Providers
        /\ \A j, k \in DOMAIN calls :
              j < k => calls[j].provider <= calls[k].provider
        /\ \A i \in Passed :
              IF Loadable(i)
              THEN /\ Cardinality(CallsFor("generate_config", i)) = 1
                   /\ Cardinality(CallsFor("save_yaml", i)) = 1
                   /\ WarningsFor(i) = {}
              ELSE /\ Cardinality(WarningsFor(i)) = 1
                   /\ CallsFor("generate_config", i) = {}
                   /\ CallsFor("save_yaml", i) = {}

\* C30: when _generate_and_save_dynamic_config runs for a provider whose
\* target file exists, the saved file is the existing configuration merged
\* with the generated one: the keys that were not generated keep their old
\* values and the generated keys have the generated values.
C30_SavedFileIsMerged ==
    [][(/\ InitializeJobRuns
        /\ Len(calls') > Len(calls)
        /\ credentials_path \in DOMAIN files) =>
          LET existing == files[credentials_path]
              generated ==
                  generate_config(build(Providers[args.provider]))
              saved == files'[credentials_path]
          IN  /\ DOMAIN saved = DOMAIN existing \cup DOMAIN generated
              /\ \A k \in DOMAIN existing \ DOMAIN generated :
                    saved[k] = existing[k]
              /\ \A k \in DOMAIN generated : saved[k] = generated[k]]_vars

\* the schedule command
ScheduleConfigured ==
    /\ ~run_config.schedules.is_None
    /\ \/ args'.pipeline \in DOMAIN run_config.schedules.dict
       \/ "default_schedule" \in DOMAIN run_config.schedules.dict

ConfiguredEntry ==
    IF args'.pipeline \in DOMAIN run_config.schedules.dict
    THEN run_config.schedules.dict[args'.pipeline]
    ELSE run_config.schedules.dict["default_schedule"]

ClientScheduleEnded ==
    /\ args.command = "schedule"
    /\ calls # <<>>
    /\ pc \in {"done", "raised"}

Named == { s \in schedules : s.display_name = run_config.scheduled_run_name }

\* C24: the schedule command hands client.schedule the entry of
\* run_config.schedules for the pipeline, or default_schedule when the
\* pipeline has none, with every field the command line gave replaced by
\* the given value and every other field as configured.
C24_GivenOptionsOverride ==
    [][(/\ pc = "idle"
        /\ args'.command = "schedule"
        /\ ScheduleConfigured) =>
          /\ Len(calls') = 1
          /\ calls'[1].fn = "client.schedule"
          /\ calls'[1].pipeline = args'.pipeline
          /\ \A f \in ScheduleFields :
                calls'[1].schedule_config[f] =
                    IF args'[f] # None
                    THEN args'[f]
                    ELSE ConfiguredEntry[f]]_vars

LettersAndDigits == WordChars

\* the maximal runs of letters and digits of a string, in order
RECURSIVE WordRuns(_)
WordRuns(s) ==
    IF s = <<>>
    THEN <<>>
    ELSE IF Head(s) \notin LettersAndDigits
    THEN WordRuns(Tail(s))
    ELSE IF Len(s) >= 2 /\ s[2] \in LettersAndDigits
    THEN <<<<Head(s)>> \o Head(WordRuns(Tail(s)))>>
         \o Tail(WordRuns(Tail(s)))
    ELSE <<<<Head(s)>>>> \o WordRuns(Tail(s))

\* the runs joined by single hyphens
RECURSIVE JoinedByHyphens(_)
JoinedByHyphens(runs) ==
    IF runs = <<>>
    THEN <<>>
    ELSE IF Len(runs) = 1
    THEN Head(runs)
    ELSE Head(runs) \o <<"-">> \o JoinedByHyphens(Tail(runs))

\* C26: for every input string clean_name returns the runs of letters and
\* digits of the input joined by single hyphens: every maximal run of
\* other characters, underscores included, becomes one hyphen, and the
\* result neither starts nor ends with a hyphen.
C26_CleanNameIsRunsJoinedByHyphens ==
    \A k \in DOMAIN calls :
        calls[k].fn = "clean_name" =>
            LET nm == calls[k].name
                rv == calls[k].rv
            IN  /\ \A i \in DOMAIN rv :
                      rv[i] \in LettersAndDigits \cup {"-"}
                /\ \A i \in DOMAIN rv :
                      rv[i] = "-" =>
                          /\ i > 1 /\ i < Len(rv)
                          /\ rv[i + 1] # "-"
                /\ rv = JoinedByHyphens(WordRuns(nm))

\* a name whose inner run of an underscore and a dot became one hyphen
C26_Witness ==
    /\ calls # <<>>
    /\ calls[1] = CleanNameCall(<<"a", "_", ".", "B">>, <<"a", "-", "B">>)

\* the orders in which a dict of the nodes can be iterated
NodeOrders ==
    { q \in [1 .. Cardinality(Nodes) -> Nodes] :
        \A i, j \in DOMAIN q : q[i] = q[j] => i = j }

\* no node has a tag that starts with the tag prefix
NoGroupingTag == \A n \in Nodes : GroupingTagsOf(n) = {}

\* C27: TagNodeGrouper.group does not depend on the iteration order: taking
\* the same nodes, tags and parent sets in any order gives the same
\* nodes_mapping and the same dependencies, or raises GroupingException as
\* well.
C27_GroupIsOrderIndependent ==
    ByTag =>
        \A order \in NodeOrders :
            LET other ==
                    TagNodeGrouper_group_in_order(node_dependencies, order)
            IN  IF Returned
                THEN /\ other.kind = "Grouping"
                     /\ other.nodes_mapping = result.nodes_mapping
                     /\ other.dependencies = result.dependencies
                ELSE other.kind = "GroupingException"

\* C28: on a graph in which no node has a tag starting with the prefix
\* TagNodeGrouper.group returns the nodes_mapping and the dependencies that
\* IdentityNodeGrouper.group returns on that graph.
C28_UntaggedTagGroupingIsIdentity ==
    (ByTag /\ NoGroupingTag) =>
        LET identity == IdentityNodeGrouper_group(node_dependencies)
        IN  /\ result.kind = identity.kind
            /\ Returned =>
                  /\ result.nodes_mapping = identity.nodes_mapping
                  /\ result.dependencies = identity.dependencies

\* two untagged nodes and a dependency between them, grouped by tags
C28_Witness ==
    /\ ByTag
    /\ NoGroupingTag
    /\ Returned
    /\ \E n \in Nodes : node_tags[n] # {}
    /\ \E n \in Nodes : node_dependencies[n] # {}
    /\ Cardinality(DOMAIN result.nodes_mapping) = MaxNodes

\* the orders in which the set of the target's tags can be iterated
OrdersOfTargetTags ==
    { q \in TagOrders :
        { q[i] : i \in DOMAIN q }
            = { target.tags[i] : i \in DOMAIN target.tags } }

\* C29: resources_for and node_selectors_for return a function of the name
\* and the set of tags: iterating the same tags in another order resolves
\* to the same result, also when two tags set one field differently.
C29_ResolutionIsOrderIndependent ==
    Resolved =>
        \A q \in OrdersOfTargetTags :
            resolved = IF ByResourcesFor
                       THEN resources_for(target.node, q)
                       ELSE node_selectors_for(target.node, q)

====
